---- MODULE Spec2Model ----
(***************************************************************************)
(* Model of ratemeter.py: the polling loop of main(), its rolling window   *)
(* (samples), the smoother history (rate_samples_shortterm), the four      *)
(* output files and the output encoding of write_rate_to_file.             *)
(*                                                                         *)
(* Units.  The program holds distances as floats in millimetres and rates  *)
(* in mm/s.  The model holds distances as integers in nanometres and rates *)
(* as exact fractions <<num, den>> (den > 0, lowest terms) in nm/s, so the *)
(* program's "rate * 1e9" (mm/s -> pm/s) is the model's "rate * 10^3".     *)
(* Timestamps are whole seconds.                                           *)
(*                                                                         *)
(* Window sizes.  SAMPLES_SHORTTERM/MIDTERM/LONGTERM, NUMBER_OF_RATES and  *)
(* the prune age are 60/120/240/20/240 in the program; the model keeps     *)
(* their order (gate 5 < short < mid < long = prune age) at a reduced      *)
(* scale, and every formula is written against the names, not the values.  *)
(* The history depth stays at 2: the exact weighted mean of three or more  *)
(* regressions over irregular timestamps needs integers beyond 2^31.       *)
(***************************************************************************)
EXTENDS Integers, Sequences, FiniteSets, TLC

\* ---------------------------------------------------------------- bounds
\* Last second of wall-clock time the model explores.
MaxTime == 15
\* Durations of a stalled iteration, in seconds (the fetch ran into its
\* timeout, or the process was held up for longer); an iteration that does
\* not stall lasts INTERVAL.
MidDt == 4
LongDt == 9
\* How many iterations may depart from a steady sensor: the sensor is
\* unavailable, or the reading is the high distance.
MaxEvents == 2
\* Longest window handed to compute_rate on its own.
MaxWin == 4
\* Timestamp of the last reading of the ramp scenario.
RampLast == 4

\* The window sizes, scaled down from 60, 120 and 240 samples.
SAMPLES_SHORTTERM == 6
SAMPLES_MIDTERM == 7
SAMPLES_LONGTERM == 8
\* "cutoff = now - 240": the prune age, equal to SAMPLES_LONGTERM * INTERVAL.
PRUNE_AGE == 8

\* ------------------------------------------------------ program constants
INTERVAL == 1
\* The history depth, scaled down from 20.
NUMBER_OF_RATES == 2
\* "if len(samples) >= 5"
MIN_SAMPLES == 5
\* "recent_dists = deque(maxlen=5)" and "if len(recent_dists) == 5"
RECENT_LEN == 5
\* rate_shifted = rate_pm_s + 100000
OFFSET == 100000
\* max(-273000, min(rate_shifted, 200000))
CLAMP_LO == 0 - 273000
CLAMP_HI == 200000
\* f"{rate_limited:9d}\n"
FIELD_WIDTH == 9
\* "* 1e9": 10^9 pm per mm, which is 10^3 pm per nm (see Units above).
PM_DIGITS == 3
PM_PER_NM == 10 ^ PM_DIGITS

\* Python's None; an optional value x is held as <<x>>.
None == <<>>
Absent == "absent"
Unset == "unset"
Slots == {"short", "mid", "long", "smooth"}

\* Distances the sensor may report (nm).
Dists == {0, 1}
\* The high reading among Dists.
High == CHOOSE d \in Dists : \A e \in Dists : e <= d
\* Seconds from the start of the previous iteration to the start of one
\* that finds the sensor unavailable; one that gets a reading starts
\* INTERVAL after the previous one.
Durations == {INTERVAL, MidDt, LongDt}

\* ------------------------------------------------------------- fractions
Abs(x) == IF x < 0 THEN 0 - x ELSE x

RECURSIVE GCD(_, _)
GCD(a, b) == IF b = 0 THEN a ELSE GCD(b, a % b)

\* The fraction n/d (d # 0) in lowest terms with a positive denominator.
Rat(n, d) ==
    LET g == GCD(Abs(n), Abs(d))
        s == IF d < 0 THEN 0 - 1 ELSE 1
    IN  <<(s * n) \div g, (s * d) \div g>>

Zero == <<0, 1>>
\* Sum, product, quotient and order of fractions.  Common factors are
\* divided out before multiplying, which keeps the intermediate integers
\* small.
RatAdd(a, b) ==
    LET g == GCD(a[2], b[2])
    IN  Rat(a[1] * (b[2] \div g) + b[1] * (a[2] \div g), (a[2] \div g) * b[2])
RatMul(a, b) ==
    LET x == Rat(a[1], b[2])
        y == Rat(b[1], a[2])
    IN  <<x[1] * y[1], x[2] * y[2]>>
RatDiv(a, b) == RatMul(a, Rat(b[2], b[1]))
RatLT(a, b) == a[1] * b[2] < b[1] * a[2]

\* <<q, rest>> with c * x = q * m + rest and 0 <= rest < m, for 0 <= x < m,
\* by c additions modulo m: no intermediate value exceeds m.
RECURSIVE TimesMod(_, _, _)
TimesMod(x, c, m) ==
    IF c = 0 THEN <<0, 0>>
    ELSE LET p == TimesMod(x, c - 1, m)
         IN  IF p[2] >= m - x THEN <<p[1] + 1, p[2] - (m - x)>>
             ELSE <<p[1], p[2] + x>>

\* <<floor(r * 10^k), rest>> with r * 10^k = floor + rest / r[2], by long
\* division, one decimal digit at a time.
RECURSIVE FloorScaled(_, _)
FloorScaled(r, k) ==
    IF k = 0 THEN <<r[1] \div r[2], r[1] % r[2]>>
    ELSE LET p == FloorScaled(r, k - 1)
             digit == TimesMod(p[2], 10, r[2])
         IN  <<10 * p[1] + digit[1], digit[2]>>

\* Python's round(r * 10^k): nearest integer, ties to the even one.
RoundScaled(r, k) ==
    LET p == FloorScaled(r, k)
        fl == p[1]
        rest == p[2]
        other == r[2] - rest
    IN  IF rest < other THEN fl
        ELSE IF rest > other THEN fl + 1
        ELSE IF fl % 2 = 0 THEN fl ELSE fl + 1

Round(r) == RoundScaled(r, 0)

RECURSIVE SumSeq(_)
SumSeq(s) == IF s = <<>> THEN 0 ELSE Head(s) + SumSeq(Tail(s))

RECURSIVE RatSum(_)
RatSum(s) == IF s = <<>> THEN Zero ELSE RatAdd(Head(s), RatSum(Tail(s)))

\* ------------------------------------------------------------ containers
\* A plain list in place of the bounded deque: append never evicts.
Append_unbounded(q, x, cap) == Append(q, x)

\* deque(maxlen=cap).appendleft(x): x goes to the front, the newest entry
\* at the back is evicted.
Append_left(q, x, cap) ==
    IF Len(q) >= cap THEN <<x>> \o SubSeq(q, 1, Len(q) - 1) ELSE <<x>> \o q

\* deque(maxlen=cap).append(x)
Append_maxlen(q, x, cap) ==
    IF Len(q) >= cap THEN Append(Tail(q), x) ELSE Append(q, x)

\* The slice left out: the whole list whatever n is.
LastN_whole(q, n) == q

\* list(q)[-(n-1):], one sample short of the n asked for.
LastN_short(q, n) ==
    IF Len(q) <= n - 1 THEN q ELSE SubSeq(q, Len(q) - n + 2, Len(q))

\* list(q)[-n:]
LastN(q, n) ==
    IF Len(q) <= n THEN q ELSE SubSeq(q, Len(q) - n + 1, Len(q))

\* "if" in place of "while": at most one sample is popped.
PopOneOld(q, cutoff) ==
    IF q # <<>> /\ Head(q)[1] < cutoff THEN Tail(q) ELSE q

\* while samples and samples[0][0] < cutoff: samples.popleft()
RECURSIVE PopOld(_, _)
PopOld(q, cutoff) ==
    IF q # <<>> /\ Head(q)[1] < cutoff THEN PopOld(Tail(q), cutoff) ELSE q

\* ---------------------------------------------------------- compute_rate
\* <<sum x, sum y, sum x*x, sum x*y>> over the first k points.
RECURSIVE RegressionSums(_, _, _)
RegressionSums(x, y, k) ==
    IF k = 0 THEN <<0, 0, 0, 0>>
    ELSE LET p == RegressionSums(x, y, k - 1)
         IN  <<p[1] + x[k], p[2] + y[k], p[3] + x[k] * x[k], p[4] + x[k] * y[k]>>

\* The covariance taken with its two products the wrong way round.
linregress_reversed(times, dists) ==
    LET n == Len(times)
        sums == RegressionSums(times, dists, n)
        den == n * sums[3] - sums[1] * sums[1]
    IN  IF den = 0 THEN "raise" ELSE Rat(sums[1] * sums[2] - n * sums[4], den)

\* scipy.stats.linregress(times, dists): the least-squares slope, or "raise"
\* (ValueError) when all x values are identical.
linregress(times, dists) ==
    LET n == Len(times)
        sums == RegressionSums(times, dists, n)
        sx == sums[1]
        sy == sums[2]
        sxx == sums[3]
        sxy == sums[4]
        den == n * sxx - sx * sx
    IN  IF den = 0 THEN "raise" ELSE Rat(n * sxy - sx * sy, den)

\* compute_rate(samples) -> <<slope, count>>, or "raise".  The r_value the
\* program also returns feeds only the --log line and is left out.
compute_rate(s) ==
    IF Len(s) < 2 THEN <<Zero, 0>>
    ELSE LET times == [i \in 1..Len(s) |-> s[i][1] - s[1][1]]
             dists == [i \in 1..Len(s) |-> s[i][2]]
             slope == linregress(times, dists)
         IN  IF slope = "raise" THEN "raise" ELSE <<slope, Len(s)>>

\* --------------------------------------------------------- output encoding
Min(a, b) == IF a < b THEN a ELSE b
Max(a, b) == IF a > b THEN a ELSE b

\* int() in place of round(): the fraction is cut off towards zero.
rate_limited_truncating(rate) ==
    LET magnitude == FloorScaled(<<Abs(rate[1]), rate[2]>>, PM_DIGITS)[1]
        rate_pm_s == IF rate[1] < 0 THEN 0 - magnitude ELSE magnitude
    IN  Max(CLAMP_LO, Min(rate_pm_s + OFFSET, CLAMP_HI))

\* The offset applied with the wrong sign of the rate.
rate_limited_negated(rate) ==
    LET rate_pm_s == RoundScaled(rate, PM_DIGITS)
    IN  Max(CLAMP_LO, Min(OFFSET - rate_pm_s, CLAMP_HI))

\* rate_pm_s = round(rate * 1e9); rate_shifted = rate_pm_s + 100000;
\* rate_limited = max(-273000, min(rate_shifted, 200000))
rate_limited(rate) ==
    LET rate_pm_s == RoundScaled(rate, PM_DIGITS)
        rate_shifted == rate_pm_s + OFFSET
    IN  Max(CLAMP_LO, Min(rate_shifted, CLAMP_HI))

Digit(k) == SubSeq(<<"0", "1", "2", "3", "4", "5", "6", "7", "8", "9">>, k + 1, k + 1)

RECURSIVE DecimalNat(_)
DecimalNat(n) == IF n < 10 THEN Digit(n) ELSE DecimalNat(n \div 10) \o Digit(n % 10)

Decimal(v) == IF v < 0 THEN <<"-">> \o DecimalNat(0 - v) ELSE DecimalNat(v)

RECURSIVE Spaces(_)
Spaces(k) == IF k <= 0 THEN <<>> ELSE <<" ">> \o Spaces(k - 1)

\* f"{v:9d}\n": decimal, right-justified in at least 9 characters, newline.
FormatLine(v) ==
    LET d == Decimal(v)
    IN  Spaces(FIELD_WIDTH - Len(d)) \o d \o <<"\n">>

\* The file after seek(0); write(text); flush(): text replaces the first
\* Len(text) bytes and whatever lay beyond them stays (there is no truncate).
Overwrite(content, text) ==
    IF Len(content) <= Len(text) THEN text
    ELSE text \o SubSeq(content, Len(text) + 1, Len(content))

\* write_rate_to_file without its try/except: a failing call raises.
write_rate_to_file_unguarded(content, rate, ok) ==
    IF ok THEN Overwrite(content, FormatLine(rate_limited(rate))) ELSE "raise"

\* write_rate_to_file(file_handle, rate): the file's content afterwards, or
\* "raise" if an exception leaves the function.  ok = FALSE is a call in
\* which round/seek/write/flush raised; the except clause swallows the
\* exception and the content is as before.
write_rate_to_file(content, rate, ok) ==
    IF ok THEN Overwrite(content, FormatLine(rate_limited(rate))) ELSE content

\* open_or_create_file(path): the file's content once it is open.
open_or_create_file(content) ==
    IF content = Absent THEN <<"0", "\n">> ELSE content


\* ------------------------------------------------------------------ state
VARIABLES
    pc,                     \* "start" before main's with-statement, "loop"
                            \* inside while True, "crashed" once an exception
                            \* has escaped main
    influxdb,               \* args.influxdb
    files,                  \* content of the four output files, or Absent
    now,                    \* time.time() at the top of the current iteration
    dist,                   \* what get_distance returned in this iteration:
                            \* <<distance>> or None
    samples,                \* deque of <<timestamp, distance>>
    recent_dists,           \* deque(maxlen=5) of distances
    rate_samples_shortterm, \* deque of <<rate, weight>>
    rate_short, rate_mid, rate_long, avg_rate,  \* main's locals
    written,                \* the slots written in this iteration, in order
    errors,                 \* what this iteration printed to stderr
    influx_line,            \* the line handed to the helper in this iteration
    pruned,                 \* how many samples this iteration's prune popped
    n_absent, n_high,   \* how much of MaxEvents the
                        \* environment has used
    fetched,            \* how many readings get_distance has returned
    streak              \* how many iterations in a row, up to now, got a
                        \* reading (counted up to MIN_SAMPLES)

locals == <<rate_samples_shortterm, rate_short, rate_mid, rate_long, avg_rate>>
budget == <<n_absent, n_high>>
counts == <<fetched, streak>>
vars == <<pc, influxdb, files, now, dist, samples, recent_dists, locals,
          written, errors, influx_line, pruned, budget, counts>>

\* A line longer than the 10 bytes one write produces.
LongLine == <<"1", "2", "3", "4", "5", "6", "7", "8", "9", "0", "1", "\n">>
\* What the output files may hold before the program starts: nothing (no
\* file), no bytes, or an earlier line.
PreContents == {Absent, <<>>, LongLine}
\* The sets of slots whose write may fail within one iteration.
WriteFailures == {{}, {"mid"}}

\* A first start: no output file exists yet.  (FileSpec below starts from
\* every content in PreContents.)
Init ==
    /\ pc = "start"
    /\ influxdb \in BOOLEAN
    /\ files = [s \in Slots |-> Absent]
    /\ now = 0
    /\ dist = None
    /\ samples = <<>>
    /\ recent_dists = <<>>
    /\ rate_samples_shortterm = <<>>
    /\ rate_short = Unset /\ rate_mid = Unset /\ rate_long = Unset
    /\ avg_rate = Unset
    /\ written = <<>>
    /\ errors = {}
    /\ influx_line = None
    /\ pruned = 0
    /\ n_absent = 0 /\ n_high = 0
    /\ fetched = 0 /\ streak = 0

\* main: the with-statement opens (creating where missing) the four files.
Startup ==
    /\ pc = "start"
    /\ files' = [s \in Slots |-> open_or_create_file(files[s])]
    /\ pc' = "loop"
    /\ UNCHANGED <<influxdb, now, dist, samples, recent_dists, locals,
                   written, errors, influx_line, pruned, budget, counts>>

\* The plain mean of the rates, the weights ignored.
plain_average(history) ==
    LET n == Len(history)
    IN  RatDiv(RatSum([i \in 1..n |-> history[i][1]]), <<n, 1>>)

\* sum(r * w for r, w in history) / total_weight, or 0.0
weighted_average(history) ==
    LET n == Len(history)
        total_weight == RatSum([i \in 1..n |-> history[i][2]])
    IN  IF RatLT(Zero, total_weight)
        THEN RatDiv(RatSum([i \in 1..n |-> RatMul(history[i][1], history[i][2])]),
                    total_weight)
        ELSE Zero

\* "len(samples) > 5": the gate one sample too high.
gate_strict(s) == Len(s) > MIN_SAMPLES

\* The gate one sample too low.
gate_off_by_one(s) == Len(s) >= MIN_SAMPLES - 1

\* No gate at all: the rates are computed from the first sample on.
gate_open(s) == Len(s) >= 0

\* The gate waiting for a full short-term window.
gate_full(s) == Len(s) >= SAMPLES_SHORTTERM

\* len(samples) >= 5
gate(s) == Len(s) >= MIN_SAMPLES

\* The mid-term and long-term calls exchanged.
WriteOrder_swapped == <<"short", "long", "mid", "smooth">>

\* The order of the four write_rate_to_file calls.
WriteOrder == <<"short", "mid", "long", "smooth">>

\* The body of while True when get_distance returned the distance d.
Present(d) ==
       \* every value of the loop body is computed once per iteration
       \E samples1 \in {Append_maxlen(samples, <<now + INTERVAL, d>>,
                                      SAMPLES_LONGTERM)} :
       \E short \in {compute_rate(LastN(samples1, SAMPLES_SHORTTERM))} :
       \E mid \in {compute_rate(LastN(samples1, SAMPLES_MIDTERM))} :
       \E long \in {compute_rate(samples1)} :
       \E history1 \in {IF gate(samples1) /\ short # "raise"
                         THEN Append_maxlen(rate_samples_shortterm,
                                  <<short[1], Rat(short[2], SAMPLES_SHORTTERM)>>,
                                  NUMBER_OF_RATES)
                         ELSE rate_samples_shortterm} :
       \E avg \in {IF gate(samples1) THEN weighted_average(history1)
                    ELSE avg_rate} :
       \E failed \in IF gate(samples1) THEN WriteFailures ELSE {{}} :
       \E helper_ok \in IF influxdb /\ Len(recent_dists) + 1 = RECENT_LEN
                        THEN BOOLEAN ELSE {TRUE} :
        LET t == now + INTERVAL
            recent1 == Append_maxlen(recent_dists, d, RECENT_LEN)
            batch == Len(recent1) = RECENT_LEN
            export == batch /\ influxdb
            dist_avg == Rat(SumSeq(recent1), RECENT_LEN)
            helper_errors == IF export /\ ~helper_ok THEN {"influx"} ELSE {}
            rates_raised == short = "raise" \/ mid = "raise" \/ long = "raise"
            rate == [s \in Slots |-> CASE s = "short" -> short[1]
                                       [] s = "mid" -> mid[1]
                                       [] s = "long" -> long[1]
                                       [] s = "smooth" -> avg]
        IN  /\ now' = t
            /\ dist' = <<d>>
            /\ samples' = samples1
            /\ recent_dists' = IF batch THEN <<>> ELSE recent1
            /\ influx_line' = IF export THEN <<Round(dist_avg), t>> ELSE None
            /\ pruned' = 0
            /\ IF ~gate(samples1)
               THEN /\ pc' = "loop"
                    /\ errors' = helper_errors
                    /\ written' = <<>>
                    /\ UNCHANGED <<files, locals>>
               ELSE IF rates_raised
               THEN /\ pc' = "crashed"
                    /\ errors' = helper_errors
                    /\ written' = <<>>
                    /\ UNCHANGED <<files, locals>>
               ELSE /\ files' = [s \in Slots |->
                                    write_rate_to_file(files[s], rate[s], s \notin failed)]
                    \* an exception that leaves write_rate_to_file leaves main
                    /\ pc' = IF \E s \in Slots : files'[s] = "raise"
                             THEN "crashed" ELSE "loop"
                    /\ rate_short' = short[1]
                    /\ rate_mid' = mid[1]
                    /\ rate_long' = long[1]
                    /\ rate_samples_shortterm' = history1
                    /\ avg_rate' = avg
                    /\ written' = SelectSeq(WriteOrder, LAMBDA s : s \notin failed)
                    /\ errors' = helper_errors
                                 \cup (IF failed # {} THEN {"write"} ELSE {})
            /\ fetched' = fetched + 1
            /\ streak' = Min(streak + 1, MIN_SAMPLES)
            /\ UNCHANGED influxdb

\* One iteration of while True in which get_distance returned a distance.
SamplePresent ==
    /\ pc = "loop"
    /\ now + INTERVAL <= MaxTime
    /\ \E d \in Dists :
        /\ d = High => n_absent + n_high < MaxEvents
        /\ n_high' = IF d = High THEN n_high + 1 ELSE n_high
        /\ UNCHANGED n_absent
        /\ Present(d)

\* The four writes de-indented out of "if dist is not None": an iteration
\* without a reading rewrites the files from the rates left in the locals.
SampleAbsentWriting ==
    /\ pc = "loop"
    /\ n_absent + n_high < MaxEvents
    /\ \E dt \in Durations :
        LET t == now + dt
            cutoff == t - PRUNE_AGE
            stale == [s \in Slots |-> CASE s = "short" -> rate_short
                                        [] s = "mid" -> rate_mid
                                        [] s = "long" -> rate_long
                                        [] s = "smooth" -> avg_rate]
        IN  /\ t <= MaxTime
            /\ now' = t
            /\ dist' = None
            /\ samples' = PopOld(samples, cutoff)
            /\ pruned' = Len(samples) - Len(PopOld(samples, cutoff))
            /\ IF rate_short = Unset
               THEN written' = <<>> /\ UNCHANGED files
               ELSE /\ written' = WriteOrder
                    /\ files' = [s \in Slots |->
                                    write_rate_to_file(files[s], stale[s], TRUE)]
            /\ errors' = {"distance"}
            /\ influx_line' = None
            /\ n_absent' = n_absent + 1
            /\ streak' = 0
            /\ UNCHANGED <<pc, influxdb, recent_dists, locals, n_high, fetched>>

\* recent_dists.clear() added to the else branch: an iteration without a
\* reading starts the batch of five over.
SampleAbsentResetting ==
    /\ pc = "loop"
    /\ n_absent + n_high < MaxEvents
    /\ \E dt \in Durations :
        LET t == now + dt
            cutoff == t - PRUNE_AGE
        IN  /\ t <= MaxTime
            /\ now' = t
            /\ dist' = None
            /\ samples' = PopOld(samples, cutoff)
            /\ pruned' = Len(samples) - Len(PopOld(samples, cutoff))
            /\ written' = <<>>
            /\ errors' = {"distance"}
            /\ influx_line' = None
            /\ n_absent' = n_absent + 1
            /\ streak' = 0
            /\ recent_dists' = <<>>
            /\ UNCHANGED <<pc, influxdb, files, locals, n_high,
                           fetched>>

\* rate_samples_shortterm.clear() added after the prune loop for the case
\* that it emptied the window: an outage starts the smoothing over.
SampleAbsentClearing ==
    /\ pc = "loop"
    /\ n_absent + n_high < MaxEvents
    /\ \E dt \in Durations :
        LET t == now + dt
            cutoff == t - PRUNE_AGE
        IN  /\ t <= MaxTime
            /\ now' = t
            /\ dist' = None
            /\ samples' = PopOld(samples, cutoff)
            /\ pruned' = Len(samples) - Len(PopOld(samples, cutoff))
            /\ written' = <<>>
            /\ errors' = {"distance"}
            /\ influx_line' = None
            /\ n_absent' = n_absent + 1
            /\ streak' = 0
            /\ rate_samples_shortterm' =
                   IF PopOld(samples, cutoff) = <<>> THEN <<>>
                   ELSE rate_samples_shortterm
            /\ UNCHANGED <<pc, influxdb, files, recent_dists, rate_short,
                           rate_mid, rate_long, avg_rate, n_high,
                           fetched>>

\* One iteration of while True in which get_distance returned None.
SampleAbsent ==
    /\ pc = "loop"
    /\ n_absent + n_high < MaxEvents
    /\ \E dt \in Durations :
        LET t == now + dt
            cutoff == t - PRUNE_AGE
        IN  /\ t <= MaxTime
            /\ now' = t
            /\ dist' = None
            /\ samples' = PopOld(samples, cutoff)
            /\ pruned' = Len(samples) - Len(PopOld(samples, cutoff))
            /\ written' = <<>>
            /\ errors' = {"distance"}
            /\ influx_line' = None
            /\ n_absent' = n_absent + 1
            /\ streak' = 0
            /\ UNCHANGED <<pc, influxdb, files, recent_dists, locals, n_high,
                           fetched>>

Next == Startup \/ SamplePresent \/ SampleAbsent

Spec == Init /\ [][Next]_vars

\* --------------------------------------------- the files on their own
\* The program's two file operations under arbitrary use: startup over
\* files with any content in PreContents, then write_rate_to_file applied
\* to rates chosen freely, rate_short to the short-term file and rate_mid to
\* the mid-term file, once each.
OneMmPerS == <<1000000, 1>>
MinusOneMmPerS == <<0 - 1000000, 1>>

\* Rates (nm/s) around zero, at rounding ties, and around both clamp bounds.
RateInputs ==
    {Zero, OneMmPerS, MinusOneMmPerS,
     <<1, 2000>>, <<0 - 1, 2000>>, <<3, 2000>>, <<0 - 3, 2000>>, <<1, 400>>,
     <<1, 1500>>, <<0 - 1, 1500>>, <<1, 1000>>,
     <<100, 1>>, <<99999, 1000>>, <<199999, 2000>>, <<199997, 2000>>, <<101, 1>>,
     <<0 - 373, 1>>, <<0 - 372999, 1000>>, <<0 - 745999, 2000>>,
     <<0 - 745997, 2000>>, <<0 - 374, 1>>}

EncSlots == {"short", "mid"}

FileInit ==
    /\ pc = "start"
    /\ influxdb = FALSE
    /\ \E c \in PreContents : files = [s \in Slots |-> c]
    /\ now = 0
    /\ dist = None
    /\ samples = <<>>
    /\ recent_dists = <<>>
    /\ rate_samples_shortterm = <<>>
    /\ rate_short \in RateInputs /\ rate_mid \in RateInputs
    /\ rate_long = Unset /\ avg_rate = Unset
    /\ written = <<>>
    /\ errors = {}
    /\ influx_line = None
    /\ pruned = 0
    /\ n_absent = 0 /\ n_high = 0
    /\ fetched = 0 /\ streak = 0

\* One call write_rate_to_file(f, rate) that does not fail.
FileWrite ==
    /\ pc = "loop"
    /\ \E s \in EncSlots :
        /\ \A i \in 1..Len(written) : written[i] # s
        /\ files' = [files EXCEPT ![s] =
                        write_rate_to_file(files[s],
                                           IF s = "short" THEN rate_short ELSE rate_mid,
                                           TRUE)]
        /\ written' = Append(written, s)
        /\ UNCHANGED <<pc, influxdb, now, dist, samples, recent_dists, locals,
                       errors, influx_line, pruned, budget, counts>>

FileNext == Startup \/ FileWrite

FileSpec == FileInit /\ [][FileNext]_vars

\* ------------------------------------------------------ the ramp scenario
\* The loop fed a distance that rises 1 mm per second from 0 at time 0, or
\* reads 0, up to time RampLast; outages as in Spec.
Mm(k) == k * OneMmPerS[1]

RampInit ==
    /\ pc = "start"
    /\ influxdb \in BOOLEAN
    /\ files = [s \in Slots |-> Absent]
    /\ now = 0 - INTERVAL
    /\ dist = None
    /\ samples = <<>>
    /\ recent_dists = <<>>
    /\ rate_samples_shortterm = <<>>
    /\ rate_short = Unset /\ rate_mid = Unset /\ rate_long = Unset
    /\ avg_rate = Unset
    /\ written = <<>>
    /\ errors = {}
    /\ influx_line = None
    /\ pruned = 0
    /\ n_absent = 0 /\ n_high = 0
    /\ fetched = 0 /\ streak = 0

RampPresent ==
    /\ pc = "loop"
    /\ now + INTERVAL <= RampLast
    /\ \E d \in {0, Mm(now + INTERVAL)} : Present(d)
    /\ UNCHANGED budget

RampNext == Startup \/ RampPresent \/ SampleAbsent

RampSpec == RampInit /\ [][RampNext]_vars

\* ------------------------------------------- the estimator on its own
\* compute_rate applied once to a window chosen freely: 2 to MaxWin samples,
\* each WinGaps seconds after the one before, with distances in WinDists.
WinGaps == {1, 2}
WinDists == {0, 1, 2}

\* The window with gaps g between its timestamps and distances y.
Window(g, y) ==
    [i \in 1..Len(y) |-> <<SumSeq(SubSeq(g, 1, i)), y[i]>>]

Windows ==
    UNION {{Window(g, y) : g \in [1..n -> WinGaps], y \in [1..n -> WinDists]} :
           n \in 2..MaxWin}

RateInit ==
    /\ pc = "loop"
    /\ influxdb = FALSE
    /\ files = [s \in Slots |-> Absent]
    /\ now = 0
    /\ dist = None
    /\ samples \in Windows
    /\ recent_dists = <<>>
    /\ rate_samples_shortterm = <<>>
    /\ rate_short = Unset /\ rate_mid = Unset /\ rate_long = Unset
    /\ avg_rate = Unset
    /\ written = <<>>
    /\ errors = {}
    /\ influx_line = None
    /\ pruned = 0
    /\ n_absent = 0 /\ n_high = 0
    /\ fetched = 0 /\ streak = 0

\* rate_long, count_long, r_long = compute_rate(samples)
RateApply ==
    /\ pc = "loop"
    /\ rate_long = Unset
    /\ LET r == compute_rate(samples)
       IN  IF r = "raise"
           THEN pc' = "crashed" /\ UNCHANGED rate_long
           ELSE rate_long' = r[1] /\ UNCHANGED pc
    /\ UNCHANGED <<influxdb, files, now, dist, samples, recent_dists,
                   rate_samples_shortterm, rate_short, rate_mid, avg_rate,
                   written, errors, influx_line, pruned, budget, counts>>

RateNext == RateApply

RateSpec == RateInit /\ [][RateNext]_vars

\* ------------------------------------------------------ reading the files
\* The rate main handed to write_rate_to_file for a slot in this iteration.
RateOf(s) ==
    CASE s = "short" -> rate_short
      [] s = "mid" -> rate_mid
      [] s = "long" -> rate_long
      [] s = "smooth" -> avg_rate

WasWritten(s) == \E i \in 1..Len(written) : written[i] = s

\* The first line of a file, without its newline.
RECURSIVE FirstLine(_)
FirstLine(content) ==
    IF content = <<>> \/ Head(content) = "\n" THEN <<>>
    ELSE <<Head(content)>> \o FirstLine(Tail(content))

RECURSIVE StripSpaces(_)
StripSpaces(text) ==
    IF text # <<>> /\ Head(text) = " " THEN StripSpaces(Tail(text)) ELSE text

DigitValue(c) == CHOOSE k \in 0..9 : Digit(k) = <<c>>

RECURSIVE DigitsValue(_, _)
DigitsValue(text, acc) ==
    IF text = <<>> THEN acc
    ELSE DigitsValue(Tail(text), 10 * acc + DigitValue(Head(text)))

\* The integer a reader finds on the first line of a file.
ReadInt(content) ==
    LET text == StripSpaces(FirstLine(content))
    IN  IF Head(text) = "-" THEN 0 - DigitsValue(Tail(text), 0)
        ELSE DigitsValue(text, 0)

\* k is the integer nearest to rate * PM_PER_NM, the even one at a tie.
IsRounded(k, rate) ==
    LET diff2 == 2 * k * rate[2] - 2 * PM_PER_NM * rate[1]
    IN  /\ Abs(diff2) <= rate[2]
        /\ Abs(diff2) = rate[2] => k % 2 = 0

\* ---------------------------------------------------------------- claims

\* C1: each of the four output slots exists and is non-empty at every moment
\* after startup initialization, whatever it was before startup.
C1_SlotsNeverEmpty ==
    pc # "start" => \A s \in Slots : files[s] # Absent /\ files[s] # <<>>

\* C2: after a write_rate_to_file to a slot, the slot's entire content is
\* exactly the latest encoded value as one newline-terminated line, with
\* nothing left over from earlier content.
C2_ExactlyLatestLine ==
    \A s \in Slots :
        WasWritten(s) => files[s] = FormatLine(rate_limited(RateOf(s)))

\* C3: in an iteration where the sensor is unavailable no output slot is
\* written: all four files are as they were before it.
C3_AbsentWritesNothing ==
    [][(pc = "loop" /\ dist' = None) => (files' = files /\ written' = <<>>)]_vars

\* The prune of a first unavailable iteration has emptied a window from
\* which rates had been written.
C3_Witness ==
    /\ dist = None /\ pruned > 0 /\ samples = <<>>
    /\ rate_short # Unset

\* C4: in an iteration whose window holds fewer than 5 samples after the
\* push, no rate is computed, the smoother history is unchanged and no
\* output slot is written.
C4_BelowGateNothing ==
    [][(pc = "loop" /\ dist' # None /\ Len(samples') < MIN_SAMPLES)
        => (UNCHANGED <<files, locals>> /\ written' = <<>>)]_vars

\* A reading pushed into a window that an outage pruned below 5 after rates
\* had been written.
C4_Witness ==
    /\ dist # None /\ Len(samples) < MIN_SAMPLES
    /\ rate_short # Unset /\ n_absent > 0 /\ written = <<>>

\* C5: the value written for a rate is
\* max(-273000, min(round(rate * 1e9) + 100000, 200000)): it lies in
\* [-273000, 200000], strictly inside that range it is the rounded rate plus
\* 100000, it sits at a bound exactly when the rounded rate plus 100000 is
\* at or beyond it; +1.0 mm/s writes 200000, -1.0 mm/s writes -273000 and
\* 0.0 writes 100000.
C5_EncodedValue ==
    \A s \in EncSlots :
        WasWritten(s) =>
            LET r == RateOf(s)
                v == ReadInt(files[s])
                twice_x == 2 * PM_PER_NM * r[1]     \* times r[2]
            IN  /\ v >= 0 - 273000 /\ v <= 200000
                /\ (v = 200000) <=> (twice_x >= (2 * (200000 - 100000) - 1) * r[2])
                /\ (v = 0 - 273000) <=> (twice_x <= (2 * (0 - 273000 - 100000) + 1) * r[2])
                /\ (v > 0 - 273000 /\ v < 200000) => IsRounded(v - 100000, r)
                /\ r = OneMmPerS => v = 200000
                /\ r = MinusOneMmPerS => v = 0 - 273000
                /\ r = Zero => v = 100000

\* +1.0 mm/s has been written to one file and a rate at a rounding tie
\* (0.5 pm/s) to the other.
C5_Witness ==
    /\ WasWritten("short") /\ WasWritten("mid")
    /\ rate_short = OneMmPerS /\ rate_mid = <<1, 2000>>

\* C6: the encoding is monotonic: for rates r1 < r2 the value written for r1
\* is at most the value written for r2.
C6_Monotonic ==
    (WasWritten("short") /\ WasWritten("mid") /\ RatLT(rate_short, rate_mid))
        => ReadInt(files["short"]) <= ReadInt(files["mid"])

\* Two different rates written, the smaller one with the smaller value.
C6_Witness ==
    /\ WasWritten("short") /\ WasWritten("mid") /\ RatLT(rate_short, rate_mid)
    /\ ReadInt(files["short"]) < ReadInt(files["mid"])

\* C7: the window never holds more than SAMPLES_LONGTERM samples, and a push
\* into a full window removes exactly the oldest sample and keeps the others
\* in order.
C7_Capacity ==
    /\ [](Len(samples) <= SAMPLES_LONGTERM)
    /\ [][(pc = "loop" /\ dist' # None /\ Len(samples) = SAMPLES_LONGTERM)
            => samples' = Tail(samples) \o << <<now', dist'[1]>> >>]_vars

\* A full window after more pushes than it can hold.
C7_Witness ==
    /\ dist # None /\ Len(samples) = SAMPLES_LONGTERM
    /\ n_absent = 0 /\ now > SAMPLES_LONGTERM * INTERVAL

\* C8: the prune of an unavailable iteration removes all and only the
\* samples older than now - PRUNE_AGE and keeps the others in order.
C8_PruneExact ==
    [][(pc = "loop" /\ dist' = None)
        => samples' = SelectSeq(samples, LAMBDA x : x[1] >= now' - PRUNE_AGE)]_vars

\* A prune that removed some samples and kept others.
C8_Witness == dist = None /\ pruned > 0 /\ samples # <<>>

\* C9: after startup no iteration terminates the process: no exception
\* escapes main, whatever the sensor, the file writes and the metrics
\* helper do.
C9_NeverTerminates == pc \in {"start", "loop"}

\* The loop is running after an outage and an iteration in which both the
\* metrics helper and a file write failed.
C9_Witness ==
    pc = "loop" /\ n_absent > 0 /\ errors = {"influx", "write"}

\* C10: in an iteration that passes the gate the short-horizon <<rate,
\* weight>> is pushed into the history (oldest evicted at NUMBER_OF_RATES)
\* and the smoothed rate is sum(rate * weight) / sum(weight) over the history
\* after the push, or 0 when the total weight is 0; that is the rate written
\* to the smoothed slot.
C10_SmoothedState ==
    (pc = "loop" /\ dist # None /\ Len(samples) >= MIN_SAMPLES) =>
        LET h == rate_samples_shortterm
            n == Len(h)
            count == Min(Len(samples), SAMPLES_SHORTTERM)
            total == RatSum([i \in 1..n |-> h[i][2]])
            weighted == RatSum([i \in 1..n |-> RatMul(h[i][1], h[i][2])])
        IN  /\ n >= 1 /\ n <= NUMBER_OF_RATES
            /\ h[n] = <<rate_short, Rat(count, SAMPLES_SHORTTERM)>>
            /\ IF total = Zero THEN avg_rate = Zero
               ELSE RatMul(avg_rate, total) = weighted
            /\ WasWritten("smooth") =>
                   ReadInt(files["smooth"]) = rate_limited(avg_rate)

C10_SmoothedStep ==
    (pc = "loop" /\ dist' # None /\ Len(samples') >= MIN_SAMPLES) =>
        LET h == rate_samples_shortterm
            kept == IF Len(h) >= NUMBER_OF_RATES THEN Tail(h) ELSE h
        IN  /\ Len(rate_samples_shortterm') = Len(kept) + 1
            /\ SubSeq(rate_samples_shortterm', 1, Len(kept)) = kept

C10_Smoothed == []C10_SmoothedState /\ [][C10_SmoothedStep]_vars

\* The smoothed slot written from a full history whose weights differ and
\* whose weighted mean is not its plain mean.
C10_Witness ==
    /\ pc = "loop" /\ dist # None /\ WasWritten("smooth")
    /\ Len(rate_samples_shortterm) = NUMBER_OF_RATES
    /\ \E i, j \in 1..NUMBER_OF_RATES :
           rate_samples_shortterm[i][2] # rate_samples_shortterm[j][2]
    /\ avg_rate # plain_average(rate_samples_shortterm)

\* C11: every weight in the smoother history lies in [0, 1]: it is a sample
\* count of at most SAMPLES_SHORTTERM over SAMPLES_SHORTTERM, whatever the
\* size of the window.
C11_WeightsInUnit ==
    \A i \in 1..Len(rate_samples_shortterm) :
        LET w == rate_samples_shortterm[i][2]
        IN  /\ ~RatLT(w, Zero)
            /\ ~RatLT(<<1, 1>>, w)
            /\ \E count \in 0..SAMPLES_SHORTTERM : w = Rat(count, SAMPLES_SHORTTERM)

\* A weight of 1 pushed from a window at capacity, longer than the short
\* slice.
C11_Witness ==
    /\ Len(samples) = SAMPLES_LONGTERM /\ SAMPLES_LONGTERM > SAMPLES_SHORTTERM
    /\ WasWritten("smooth")
    /\ rate_samples_shortterm[Len(rate_samples_shortterm)][2] = <<1, 1>>

\* -1, 0 or 1: the sign of an integer.
Sign(x) == IF x < 0 THEN 0 - 1 ELSE IF x > 0 THEN 1 ELSE 0

Displacement(w) == w[Len(w)][2] - w[1][2]
NonConstant(w) == \E i \in 1..Len(w) : w[i][2] # w[1][2]
Monotonic(w) ==
    \/ \A i \in 1..(Len(w) - 1) : w[i][2] <= w[i + 1][2]
    \/ \A i \in 1..(Len(w) - 1) : w[i][2] >= w[i + 1][2]

\* C12 as stated: for every window of at least 2 samples with non-constant
\* distance, the sign of the slope is the sign of the last distance minus
\* the first.
C12_SlopeSign ==
    (rate_long # Unset /\ Len(samples) >= 2 /\ NonConstant(samples))
        => Sign(rate_long[1]) = Sign(Displacement(samples))

\* C12 amended: for every window of at least 2 samples whose distances are
\* monotonic (never falling, or never rising) and not constant, the sign of
\* the slope is the sign of the last distance minus the first.
C12_SlopeSignMonotonic ==
    (rate_long # Unset /\ Len(samples) >= 2 /\ NonConstant(samples)
        /\ Monotonic(samples))
        => Sign(rate_long[1]) = Sign(Displacement(samples))

\* A falling window of MaxWin unevenly spaced samples, with a plateau, whose
\* slope has been computed.
C12_Witness ==
    /\ rate_long # Unset /\ Len(samples) = MaxWin
    /\ Monotonic(samples) /\ Displacement(samples) < 0
    /\ samples[2][2] = samples[3][2]
    /\ samples[2][1] - samples[1][1] # samples[3][1] - samples[2][1]
    /\ Sign(rate_long[1]) = 0 - 1

\* The samples (0, 0.0), (1, 1.0), (2, 2.0), (3, 3.0), (4, 4.0), in seconds
\* and millimetres.
RampSamples == [i \in 1..5 |-> <<i - 1, Mm(i - 1)>>]

\* C13: after five iterations that delivered the ramp samples, the short,
\* mid and long slopes are all 1.0 mm/s with count 5 and the short-term file
\* holds 200000.
C13_Scenario ==
    (pc # "start" /\ samples = RampSamples /\ dist = <<Mm(4)>>) =>
        /\ pc = "loop"
        /\ WasWritten("short")
        /\ rate_short = OneMmPerS /\ rate_mid = OneMmPerS /\ rate_long = OneMmPerS
        /\ rate_samples_shortterm = << <<OneMmPerS, Rat(5, SAMPLES_SHORTTERM)>> >>
        /\ ReadInt(files["short"]) = 200000

\* The fifth ramp sample has just been taken and the metrics helper run.
C13_Witness ==
    /\ samples = RampSamples /\ dist = <<Mm(4)>> /\ now = 4 /\ fetched = 5
    /\ influx_line = <<Mm(2), 4>>

\* C14: in every reachable state the samples of the window are in time
\* order, timestamps never decreasing from oldest to newest.
C14_TimeOrder ==
    \A i \in 1..(Len(samples) - 1) : samples[i][1] <= samples[i + 1][1]

\* A window that has lost samples to capacity eviction, then to a prune, and
\* has been pushed to since, with the outage visible as a gap.
C14_Witness ==
    /\ dist # None /\ n_absent > 0 /\ fetched > SAMPLES_LONGTERM
    /\ Len(samples) < SAMPLES_LONGTERM
    /\ \E i \in 1..(Len(samples) - 1) :
           samples[i + 1][1] - samples[i][1] > INTERVAL

\* C15 as stated: every iteration that got a reading and whose window holds
\* at least MIN_SAMPLES samples writes all four slots, once each, in the
\* order short, mid, long, smoothed.
C15_AllFourWritten ==
    (pc = "loop" /\ dist # None /\ Len(samples) >= MIN_SAMPLES) =>
        written = <<"short", "mid", "long", "smooth">>

\* The position of a slot in the order short, mid, long, smoothed.
C15_Rank(s) ==
    CASE s = "short" -> 1 [] s = "mid" -> 2 [] s = "long" -> 3
      [] s = "smooth" -> 4

\* C15, amended: an iteration that got a reading and whose window then holds
\* at least MIN_SAMPLES samples calls write_rate_to_file once per slot in the
\* order short, mid, long, smoothed with the rates computed in that iteration
\* from the window after the push; every slot whose write does not fail then
\* holds that iteration's value, a slot whose write fails keeps its content
\* and the failure is reported; any other iteration writes nothing.
C15_WriteState ==
    pc = "loop" =>
        IF dist # None /\ Len(samples) >= MIN_SAMPLES
        THEN /\ \A i, j \in 1..Len(written) :
                    i < j => C15_Rank(written[i]) < C15_Rank(written[j])
             /\ rate_short = compute_rate(LastN(samples, SAMPLES_SHORTTERM))[1]
             /\ rate_mid = compute_rate(LastN(samples, SAMPLES_MIDTERM))[1]
             /\ rate_long = compute_rate(samples)[1]
             /\ avg_rate = weighted_average(rate_samples_shortterm)
             /\ \A s \in Slots :
                    WasWritten(s) =>
                        ReadInt(files[s]) = rate_limited(RateOf(s))
             /\ ("write" \in errors) <=> (Len(written) < Cardinality(Slots))
        ELSE written = <<>>

C15_WriteStep ==
    \A s \in Slots :
        (pc = "loop" /\ \A i \in 1..Len(written') : written'[i] # s) => files'[s] = files[s]

C15_OrderedWrites == []C15_WriteState /\ [][C15_WriteStep]_vars

\* An iteration in which the write of the mid-term slot failed: the other
\* three slots were written in order and the mid-term file still holds the
\* value of an earlier iteration.
C15_Witness ==
    /\ pc = "loop" /\ dist # None /\ Len(samples) >= MIN_SAMPLES
    /\ written = <<"short", "long", "smooth">>
    /\ "write" \in errors
    /\ ReadInt(files["mid"]) # rate_limited(rate_mid)
    /\ ReadInt(files["long"]) = rate_limited(rate_long)

\* C16: with --influxdb the helper is handed a line exactly in the iterations
\* in which the number of readings fetched since startup reaches a multiple
\* of RECENT_LEN, and the line carries the mean of the last RECENT_LEN
\* distances and the iteration's timestamp; an iteration without a reading
\* hands over nothing and leaves the count and the batch as they are.
C16_BatchState == Len(recent_dists) = fetched % RECENT_LEN

C16_ExportStep ==
    pc = "loop" =>
        IF dist' # None
        THEN LET batch == recent_dists \o dist'
             IN  /\ fetched' = fetched + 1
                 /\ (influx_line' # None) <=>
                        (influxdb /\ fetched' % RECENT_LEN = 0)
                 /\ influx_line' # None =>
                        /\ Len(batch) = RECENT_LEN
                        /\ influx_line' =
                               <<Round(Rat(SumSeq(batch), RECENT_LEN)), now'>>
        ELSE /\ influx_line' = None
             /\ fetched' = fetched
             /\ recent_dists' = recent_dists

C16_ExportEveryFifth == []C16_BatchState /\ [][C16_ExportStep]_vars

\* The tenth reading triggers an export although an outage came in between,
\* and the mean handed over is not the latest distance.
C16_Witness ==
    /\ influxdb /\ dist # None /\ influx_line # None
    /\ fetched = 2 * RECENT_LEN /\ now > 2 * RECENT_LEN
    /\ \E i \in 1..(Len(samples) - 1) :
           samples[i + 1][1] - samples[i][1] > INTERVAL
    /\ influx_line[1] # dist[1]

\* C17: every weight in the history is at least MIN_SAMPLES /
\* SAMPLES_SHORTTERM and so above zero; in every iteration that writes the
\* smoothed slot the total weight is above zero, the weighted mean is the
\* value taken (never the 0.0 default), and avg_rate was assigned in that
\* iteration from the history as it is after the push.
C17_TotalWeight ==
    RatSum([i \in 1..Len(rate_samples_shortterm) |->
                rate_samples_shortterm[i][2]])

C17_PositiveWeights ==
    /\ \A i \in 1..Len(rate_samples_shortterm) :
           LET w == rate_samples_shortterm[i][2]
           IN  /\ ~RatLT(w, Rat(MIN_SAMPLES, SAMPLES_SHORTTERM))
               /\ RatLT(Zero, w)
    /\ (pc = "loop" /\ WasWritten("smooth")) =>
           /\ rate_samples_shortterm # <<>>
           /\ RatLT(Zero, C17_TotalWeight)
           /\ rate_samples_shortterm[Len(rate_samples_shortterm)][1] = rate_short
           /\ RatMul(avg_rate, C17_TotalWeight) =
                  RatSum([i \in 1..Len(rate_samples_shortterm) |->
                              RatMul(rate_samples_shortterm[i][1],
                                     rate_samples_shortterm[i][2])])

\* The smoothed slot written in the first iteration that passes the gate:
\* the history holds one pair, of the least weight there is, and the
\* smoothed rate is not zero.
C17_Witness ==
    /\ pc = "loop" /\ dist # None /\ WasWritten("smooth")
    /\ Len(samples) = MIN_SAMPLES
    /\ rate_samples_shortterm =
           << <<rate_short, Rat(MIN_SAMPLES, SAMPLES_SHORTTERM)>> >>
    /\ avg_rate # Zero

\* C18: an iteration without a reading leaves the history of <<rate,
\* weight>> pairs as it is, whatever its prune removes; no step ever clears
\* the history; and an iteration that passes the gate, the first after an
\* outage included, takes its smoothed rate over the pairs the history held
\* before (less the one evicted at NUMBER_OF_RATES) together with the new
\* short-horizon pair.
C18_Kept(h) == IF Len(h) >= NUMBER_OF_RATES THEN Tail(h) ELSE h

C18_HistoryStep ==
    pc = "loop" =>
        IF dist' = None \/ Len(samples') < MIN_SAMPLES
        THEN rate_samples_shortterm' = rate_samples_shortterm
        ELSE LET h == rate_samples_shortterm'
                 count == Min(Len(samples'), SAMPLES_SHORTTERM)
             IN  /\ h = C18_Kept(rate_samples_shortterm)
                        \o << <<rate_short', Rat(count, SAMPLES_SHORTTERM)>> >>
                 /\ avg_rate' = weighted_average(h)

C18_HistorySurvivesOutage == [][C18_HistoryStep]_vars

\* An iteration without a reading whose prune emptied the window, the
\* history of the iterations before the outage still there.
C18_Witness ==
    /\ pc = "loop" /\ dist = None /\ pruned >= MIN_SAMPLES /\ samples = <<>>
    /\ rate_samples_shortterm # <<>>

\* C19: in an iteration that writes, a window of at most SAMPLES_SHORTTERM
\* samples gives the same slice for short, mid and long, so the three rates
\* and the values written to the three slots are equal; a window of at most
\* SAMPLES_MIDTERM samples gives equal mid and long.
C19_SameFile(a, b) ==
    (WasWritten(a) /\ WasWritten(b)) => ReadInt(files[a]) = ReadInt(files[b])

C19_EqualSlices ==
    (pc = "loop" /\ dist # None /\ Len(samples) >= MIN_SAMPLES) =>
        /\ Len(samples) <= SAMPLES_SHORTTERM =>
               /\ LastN(samples, SAMPLES_SHORTTERM) = samples
               /\ LastN(samples, SAMPLES_MIDTERM) = samples
               /\ rate_short = rate_mid /\ rate_mid = rate_long
               /\ C19_SameFile("short", "mid")
               /\ C19_SameFile("short", "long")
        /\ Len(samples) <= SAMPLES_MIDTERM =>
               /\ LastN(samples, SAMPLES_MIDTERM) = samples
               /\ rate_mid = rate_long
               /\ C19_SameFile("mid", "long")

\* All four slots written from a window of exactly SAMPLES_SHORTTERM samples
\* whose common rate is not zero.
C19_Witness ==
    /\ pc = "loop" /\ dist # None /\ written = WriteOrder
    /\ Len(samples) = SAMPLES_SHORTTERM
    /\ rate_long # Zero
    /\ ReadInt(files["short"]) = ReadInt(files["long"])
    /\ ReadInt(files["short"]) # OFFSET

\* C20 as stated: once MIN_SAMPLES iterations in a row have got a reading,
\* every one of them from the MIN_SAMPLES-th on has written all four slots.
C20_AllWrittenAfterFive ==
    (pc = "loop" /\ streak >= MIN_SAMPLES) => \A s \in Slots : WasWritten(s)

\* C20, amended: from any reachable state, once MIN_SAMPLES iterations in a
\* row have got a reading the window holds at least MIN_SAMPLES samples, and
\* that iteration and every later one of the run attempts all four writes:
\* each slot is written with the iteration's value unless its write failed,
\* and a failed write is reported.
C20_RecoversAfterFive ==
    (pc = "loop" /\ streak >= MIN_SAMPLES) =>
        /\ dist # None
        /\ Len(samples) >= MIN_SAMPLES
        /\ \A s \in Slots :
               IF WasWritten(s)
               THEN ReadInt(files[s]) = rate_limited(RateOf(s))
               ELSE "write" \in errors
        /\ written # <<>>

\* The fifth reading in a row after an outage that had emptied the window:
\* all four slots are written.
C20_Witness ==
    /\ pc = "loop" /\ streak = MIN_SAMPLES /\ n_absent > 0
    /\ Len(samples) = MIN_SAMPLES /\ fetched > MIN_SAMPLES
    /\ samples[1][1] > PRUNE_AGE
    /\ written = <<"short", "mid", "long", "smooth">>
    /\ rate_short # Zero

====
